---- MODULE Spec2Model ----
(***************************************************************************)
(* Model of tokenize-pop909.py: main(args) discovers the preprocessed      *)
(* shards of a directory, builds the single job, runs it on a             *)
(* multiprocessing Pool, unpacks the returned statistics, computes the    *)
(* two ratios and prints the report.                                      *)
(*                                                                         *)
(* Strings that the code compares or matches (file names) are sequences   *)
(* of one-character strings.  Ratios are kept in hundredths (an integer   *)
(* n stands for the printed value n / 100).                               *)
(***************************************************************************)
EXTENDS Integers, Sequences, FiniteSets, TLC

VARIABLES
    dirFiles,       \* names of the entries of args.datadir
    augment,        \* args.augment
    interarrival,   \* args.interarrival
    M,              \* anticipation.config.M
    PREPROC_WORKERS,\* anticipation.config.PREPROC_WORKERS
    pc,             \* position of main
    out,            \* diagnostics printed so far (tags, in order)
    input_files,    \* main's local input_files
    func,           \* main's local func: the tokenizer variant selected
    starmap_args,   \* main's local starmap_args
    taskq,          \* pool: tasks submitted and not yet taken by a worker
    running,        \* pool: worker -> index of the job it runs (0: idle)
    slots,          \* pool: job index -> outcome of the job
    calls,          \* job index -> the tokenizer calls made for it, in order
    written,        \* the <<destination, worker>> writes of tokenized output
    results,        \* main's local results
    stats,          \* the seven unpacked locals (seq_count .. truncations)
    rest_ratio,     \* main's local rest_ratio, in hundredths
    trunc_ratio,    \* main's local trunc_ratio, in hundredths
    trunc_type,     \* main's local trunc_type
    zerodiv,        \* TRUE once a division by zero was evaluated
    report          \* the report printed (a sequence of at most one record)

vars == <<dirFiles, augment, interarrival, M, PREPROC_WORKERS, pc, out,
          input_files, func, starmap_args, taskq, running, slots, calls, written,
          results, stats, rest_ratio, trunc_ratio, trunc_type, zerodiv,
          report>>

(***************************************************************************)
(* Bounds of the model.                                                    *)
(***************************************************************************)
MaxAugment == 2
MaxWorkers == 2
MaxOther == 1

(***************************************************************************)
(* File names.                                                             *)
(***************************************************************************)
Suffix == <<".", "m", "i", "d", ".", "c", "o", "m", "p", "o", "u", "n", "d",
            ".", "t", "x", "t">>

OutputName == <<"t", "o", "k", "e", "n", "i", "z", "e", "d", "-", "e", "v",
                "e", "n", "t", "s", "-", "a", "l", "l", ".", "t", "x", "t">>

\* The entries a data directory is drawn from: three shards whose code-point
\* order differs from their alphabetical order, a hidden shard, and the
\* output of an earlier run (a name without the shard suffix).
FileNames ==
    { <<"a">> \o Suffix,
      <<"a", "b">> \o Suffix,
      <<"B">> \o Suffix,
      <<".", "a">> \o Suffix,
      OutputName }

\* ord(c) for the characters that occur in FileNames.
Ord(c) ==
    CASE c = "-" -> 45  [] c = "." -> 46  [] c = "B" -> 66
      [] c = "a" -> 97  [] c = "b" -> 98  [] c = "c" -> 99
      [] c = "d" -> 100 [] c = "e" -> 101 [] c = "i" -> 105
      [] c = "k" -> 107 [] c = "l" -> 108 [] c = "m" -> 109
      [] c = "n" -> 110 [] c = "o" -> 111 [] c = "p" -> 112
      [] c = "s" -> 115 [] c = "t" -> 116 [] c = "u" -> 117
      [] c = "v" -> 118 [] c = "x" -> 120 [] c = "z" -> 122

\* Python's str.__lt__: the first differing code point decides, a proper
\* prefix is smaller.
RECURSIVE StrLess(_, _)
StrLess(s, t) ==
    IF t = <<>> THEN FALSE
    ELSE IF s = <<>> THEN TRUE
    ELSE IF Head(s) = Head(t) THEN StrLess(Tail(s), Tail(t))
    ELSE Ord(Head(s)) < Ord(Head(t))

\* fnmatch of a name against '*.mid.compound.txt': '*' matches any run of
\* characters, the empty one included, so the name has to end with the suffix.
FnMatch(name) ==
    /\ Len(name) >= Len(Suffix)
    /\ SubSeq(name, Len(name) - Len(Suffix) + 1, Len(name)) = Suffix

\* glob._ishidden: a pattern that does not start with a dot never matches a
\* name that does.
IsHidden(name) == name # <<>> /\ Head(name) = "."

\* os.path.join(args.datadir, name); every path of one run has the same
\* directory part, so paths compare as their names do.
Path(name) == [dir |-> "datadir", name |-> name]

\* The set of paths glob(os.path.join(args.datadir, '*.mid.compound.txt'))
\* returns for a directory holding the entries `names`.
Glob(names) == { Path(n) : n \in { m \in names : FnMatch(m) /\ ~IsHidden(m) } }

PathLess(p, q) == StrLess(p.name, q.name)

RECURSIVE Insert(_, _)
Insert(p, sortedSeq) ==
    IF sortedSeq = <<>> THEN <<p>>
    ELSE IF PathLess(p, Head(sortedSeq)) THEN <<p>> \o sortedSeq
    ELSE <<Head(sortedSeq)>> \o Insert(p, Tail(sortedSeq))

RECURSIVE SortFrom(_, _)
SortFrom(listing, acc) ==
    IF listing = <<>> THEN acc
    ELSE SortFrom(Tail(listing), Insert(Head(listing), acc))

\* sorted(listing): ascending, stable.
Unsorted(listing) == listing
Sorted(listing) == SortFrom(listing, <<>>)

\* The orders in which glob may list the set S (the order of os.scandir is
\* unspecified).
Listings(S) ==
    { l \in [1..Cardinality(S) -> S] : \A i, j \in DOMAIN l : i # j => l[i] # l[j] }

(***************************************************************************)
(* Job building.                                                           *)
(***************************************************************************)
\* `not input_files`
NoInputNever(files) == FALSE
NoInput(files) == files = <<>>

\* os.path.join(args.datadir, 'tokenized-events-all.txt')
OutputFile == Path(OutputName)

\* tokenize_ia if args.interarrival else tokenize
Func(ia) == IF ia THEN "tokenize_ia" ELSE "tokenize"

\* The list of argument tuples handed to starmap: one tuple, proc_idx 0.
StarmapArgs(files, output_file, factor) ==
    << [input_files |-> files, output_file |-> output_file,
        augmentation_factor |-> factor, proc_idx |-> 0] >>

(***************************************************************************)
(* The tokenizer's statistics.                                             *)
(***************************************************************************)
StatsFields == {"seq_count", "rest_count", "too_short", "too_long",
                "too_manyinstr", "discarded_seqs", "truncations"}

SeqCounts == {0, 3, 100}
RestCounts == {0, 1, 50}
TruncCounts == {0, 10}

\* The 7-tuples a tokenizer call may return, in the order main unpacks them.
\* The four counts that enter no ratio take pairwise different values.
StatsTuples ==
    { <<s, r, p, p + 1, 2 * p + 3, p + 5, t>> :
        s \in SeqCounts, r \in RestCounts, t \in TruncCounts, p \in 0..MaxOther }

NoStats == <<0, 0, 0, 0, 0, 0, 0>>

\* seq_count, rest_count, ..., truncations = results[0]
UnpackSwapped(res) ==
    [seq_count |-> res[1][1], rest_count |-> res[1][7], too_short |-> res[1][3],
     too_long |-> res[1][4], too_manyinstr |-> res[1][5],
     discarded_seqs |-> res[1][6], truncations |-> res[1][2]]
Unpack(res) ==
    [seq_count |-> res[1][1], rest_count |-> res[1][2], too_short |-> res[1][3],
     too_long |-> res[1][4], too_manyinstr |-> res[1][5],
     discarded_seqs |-> res[1][6], truncations |-> res[1][7]]

(***************************************************************************)
(* Ratios.                                                                 *)
(***************************************************************************)
\* `seq_count > 0 and M > 0`
RatioGuardSeqOnly(seq_count, m) == seq_count > 0
RatioGuard(seq_count, m) == seq_count > 0 /\ m > 0

\* round(100 * float(count) / den, 2) in hundredths, for den > 0.  The
\* quotient is rounded to the nearest hundredth.  A quotient exactly halfway
\* between two hundredths is a binary fraction only when it is an odd multiple
\* of 1/8; the float is then exact and round() takes the even neighbour.  Any
\* other halfway quotient is not representable, and the float that stands for
\* it falls on one side or the other: both neighbours are allowed.
RatioFloor(count, den) == { (10000 * count) \div den }
Ratio(count, den) ==
    LET n == 10000 * count
        lo == n \div den
        rem == n % den
    IN  IF 2 * rem < den THEN {lo}
        ELSE IF 2 * rem > den THEN {lo + 1}
        ELSE IF (2 * lo + 1) % 25 = 0
             THEN {IF lo % 2 = 0 THEN lo ELSE lo + 1}
             ELSE {lo, lo + 1}

\* 'interarrival' if args.interarrival else 'duration', as assigned on the
\* branch of the ratio guard that is taken.
TruncTypeElseFixed(ia, guard) ==
    IF guard THEN (IF ia THEN "interarrival" ELSE "duration") ELSE "duration"
TruncType(ia, guard) ==
    IF guard THEN (IF ia THEN "interarrival" ELSE "duration")
             ELSE (IF ia THEN "interarrival" ELSE "duration")

(***************************************************************************)
(* The pool.                                                               *)
(***************************************************************************)
Pending == [state |-> "pending", value |-> NoStats]

\* What one call of func may do: return a statistics tuple or raise.
TokenizerOutcomes ==
    { [state |-> "ok", value |-> s] : s \in StatsTuples }
    \cup { [state |-> "error", value |-> NoStats] }

\* The task queue after a worker has taken the task at its head.
KeepTask(q) == q
TakeTask(q) == Tail(q)

\* The task queue after job j ended with outcome r: a worker reports the
\* outcome, success or exception, and never puts the task back.
RequeueFailed(q, j, r) == IF r.state = "error" THEN Append(q, j) ELSE q
AfterRun(q, j, r) == q

\* starmap's wait: the result is ready once no job is pending.
ReadyAtOnce(s) == TRUE
Ready(s) == \A j \in DOMAIN s : s[j].state # "pending"

\* What starmap does once ready: re-raise a job's exception, or return the
\* jobs' values in submission order.
RECURSIVE OkValues(_)
OkValues(s) ==
    IF s = <<>> THEN <<>>
    ELSE IF Head(s).state = "ok" THEN <<Head(s).value>> \o OkValues(Tail(s))
    ELSE OkValues(Tail(s))

StarmapDropFailed(s) == [raised |-> FALSE, value |-> OkValues(s)]
StarmapOutcome(s) ==
    IF \E j \in DOMAIN s : s[j].state = "error"
    THEN [raised |-> TRUE, value |-> <<>>]
    ELSE [raised |-> FALSE, value |-> [j \in DOMAIN s |-> s[j].value]]

(***************************************************************************)
(* Initial state: the arguments, the directory and the configuration.      *)
(***************************************************************************)
MValues == {0, 8, 20}

UnsetStats == [f \in StatsFields |-> 0]

Init ==
    /\ dirFiles \in SUBSET FileNames
    /\ augment \in 1..MaxAugment
    /\ interarrival \in BOOLEAN
    /\ M \in MValues
    /\ PREPROC_WORKERS \in 1..MaxWorkers
    /\ pc = "start"
    /\ out = <<>>
    /\ input_files = <<>>
    /\ func = "unset"
    /\ starmap_args = <<>>
    /\ taskq = <<>>
    /\ running = <<>>
    /\ slots = <<>>
    /\ calls = <<>>
    /\ written = {}
    /\ results = <<>>
    /\ stats = UnsetStats
    /\ rest_ratio = 0
    /\ trunc_ratio = 0
    /\ trunc_type = "unset"
    /\ zerodiv = FALSE
    /\ report = <<>>

(***************************************************************************)
(* main, step by step.                                                     *)
(***************************************************************************)
\* Lines 15-25: the banner and the tokenization parameters.
PrintHeader ==
    /\ pc = "start"
    /\ out' = Append(out, "parameters")
    /\ pc' = "glob"
    /\ UNCHANGED <<dirFiles, augment, interarrival, M, PREPROC_WORKERS,
                   input_files, func, starmap_args, taskq, running, slots,
                   calls, written, results, stats, rest_ratio, trunc_ratio,
                   trunc_type, zerodiv, report>>

\* Lines 28-32: discover the shards; without any, report and return.
Discover ==
    /\ pc = "glob"
    /\ \E listing \in Listings(Glob(dirFiles)) :
         /\ input_files' = Sorted(listing)
         /\ IF NoInput(Sorted(listing))
            THEN /\ out' = Append(out, "no_input_files")
                 /\ pc' = "return_no_input"
            ELSE /\ out' = out
                 /\ pc' = "build"
    /\ UNCHANGED <<dirFiles, augment, interarrival, M, PREPROC_WORKERS,
                   func, starmap_args, taskq, running, slots, calls, written,
                   results, stats, rest_ratio, trunc_ratio, trunc_type,
                   zerodiv, report>>

\* Lines 34-50: the output path, the tokenizer variant, the single job.
BuildJobs ==
    /\ pc = "build"
    /\ out' = Append(out, "found")
    /\ func' = Func(interarrival)
    /\ starmap_args' = StarmapArgs(input_files, OutputFile, augment)
    /\ pc' = "pool"
    /\ UNCHANGED <<dirFiles, augment, interarrival, M, PREPROC_WORKERS,
                   input_files, taskq, running, slots, calls, written,
                   results, stats, rest_ratio, trunc_ratio, trunc_type,
                   zerodiv, report>>

\* Line 54: Pool(processes=PREPROC_WORKERS, ...) starts the workers (the
\* configured number of processes is at least 1).
CreatePool ==
    /\ pc = "pool"
    /\ running' = [w \in 1..PREPROC_WORKERS |-> 0]
    /\ pc' = "submit"
    /\ UNCHANGED <<dirFiles, augment, interarrival, M, PREPROC_WORKERS, out,
                   input_files, func, starmap_args, taskq, slots, calls,
                   written, results, stats, rest_ratio, trunc_ratio,
                   trunc_type, zerodiv, report>>

\* Line 57, the call: starmap submits one task per argument tuple and blocks.
Submit ==
    /\ pc = "submit"
    /\ taskq' = [j \in DOMAIN starmap_args |-> j]
    /\ slots' = [j \in DOMAIN starmap_args |-> Pending]
    /\ calls' = [j \in DOMAIN starmap_args |-> <<>>]
    /\ pc' = "wait"
    /\ UNCHANGED <<dirFiles, augment, interarrival, M, PREPROC_WORKERS, out,
                   input_files, func, starmap_args, running, written,
                   results, stats, rest_ratio, trunc_ratio, trunc_type,
                   zerodiv, report>>

\* An idle worker takes the next task.
WorkerTake(w) ==
    /\ pc = "wait"
    /\ running[w] = 0
    /\ taskq # <<>>
    /\ running' = [running EXCEPT ![w] = Head(taskq)]
    /\ taskq' = TakeTask(taskq)
    /\ UNCHANGED <<dirFiles, augment, interarrival, M, PREPROC_WORKERS, pc,
                   out, input_files, func, starmap_args, slots, calls,
                   written, results, stats, rest_ratio, trunc_ratio,
                   trunc_type, zerodiv, report>>

\* A worker calls func(*starmap_args[j]): the tokenizer writes its output
\* destination and returns its statistics, or raises.
WorkerRun(w) ==
    /\ pc = "wait"
    /\ running[w] # 0
    /\ LET j == running[w]
       IN  /\ calls' = [calls EXCEPT ![j] = Append(@, [worker |-> w, func |-> func])]
           /\ written' = written \cup {<<starmap_args[j].output_file, w>>}
           /\ \E r \in TokenizerOutcomes :
                /\ slots' = [slots EXCEPT ![j] = r]
                /\ taskq' = AfterRun(taskq, j, r)
    /\ running' = [running EXCEPT ![w] = 0]
    /\ UNCHANGED <<dirFiles, augment, interarrival, M, PREPROC_WORKERS, pc,
                   out, input_files, func, starmap_args, results, stats,
                   rest_ratio, trunc_ratio, trunc_type, zerodiv, report>>

\* Line 57, the return, and the end of the with block (the pool is
\* terminated): starmap returns the list of results or re-raises.
StarmapReturn ==
    /\ pc = "wait"
    /\ Ready(slots)
    /\ LET o == StarmapOutcome(slots)
       IN  IF o.raised
           THEN /\ pc' = "raised"
                /\ results' = results
           ELSE /\ pc' = "check"
                /\ results' = o.value
    /\ taskq' = <<>>
    /\ UNCHANGED <<dirFiles, augment, interarrival, M, PREPROC_WORKERS, out,
                   input_files, func, starmap_args, running, slots, calls,
                   written, stats, rest_ratio, trunc_ratio, trunc_type,
                   zerodiv, report>>

\* Lines 59-61: `if not results`.
CheckResults ==
    /\ pc = "check"
    /\ IF results = <<>>
       THEN /\ out' = Append(out, "no_results")
            /\ pc' = "return_no_results"
       ELSE /\ out' = out
            /\ pc' = "unpack"
    /\ UNCHANGED <<dirFiles, augment, interarrival, M, PREPROC_WORKERS,
                   input_files, func, starmap_args, taskq, running, slots,
                   calls, written, results, stats, rest_ratio, trunc_ratio,
                   trunc_type, zerodiv, report>>

\* Lines 65-75: unpack results[0], compute the ratios and the label.
Aggregate ==
    /\ pc = "unpack"
    /\ LET s == Unpack(results)
           den == s.seq_count * M
           guard == RatioGuard(s.seq_count, M)
       IN  /\ stats' = s
           /\ IF guard /\ den = 0
              THEN /\ zerodiv' = TRUE
                   /\ pc' = "raised"
                   /\ UNCHANGED <<rest_ratio, trunc_ratio, trunc_type>>
              ELSE /\ zerodiv' = zerodiv
                   /\ pc' = "report"
                   /\ trunc_type' = TruncType(interarrival, guard)
                   /\ IF guard
                      THEN /\ rest_ratio' \in Ratio(s.rest_count, den)
                           /\ trunc_ratio' \in Ratio(s.truncations, den)
                      ELSE /\ rest_ratio' = 0
                           /\ trunc_ratio' = 0
    /\ UNCHANGED <<dirFiles, augment, interarrival, M, PREPROC_WORKERS, out,
                   input_files, func, starmap_args, taskq, running, slots,
                   calls, written, results, report>>

\* Lines 78-89: the report.
Report ==
    /\ pc = "report"
    /\ out' = Append(out, "complete")
    /\ report' = << [output_file |-> OutputFile,
                     processed |-> stats.seq_count,
                     rest_count |-> stats.rest_count,
                     rest_ratio |-> rest_ratio,
                     discarded_length |-> stats.too_short + stats.too_long,
                     too_short |-> stats.too_short,
                     too_long |-> stats.too_long,
                     too_manyinstr |-> stats.too_manyinstr,
                     discarded_seqs |-> stats.discarded_seqs,
                     truncations |-> stats.truncations,
                     trunc_type |-> trunc_type,
                     trunc_ratio |-> trunc_ratio] >>
    /\ pc' = "done"
    /\ UNCHANGED <<dirFiles, augment, interarrival, M, PREPROC_WORKERS,
                   input_files, func, starmap_args, taskq, running, slots,
                   calls, written, results, stats, rest_ratio, trunc_ratio,
                   trunc_type, zerodiv>>

Next ==
    \/ PrintHeader
    \/ Discover
    \/ BuildJobs
    \/ CreatePool
    \/ Submit
    \/ \E w \in DOMAIN running : WorkerTake(w)
    \/ \E w \in DOMAIN running : WorkerRun(w)
    \/ StarmapReturn
    \/ CheckResults
    \/ Aggregate
    \/ Report

Spec == Init /\ [][Next]_vars

(***************************************************************************)
(* Properties.                                                             *)
(***************************************************************************)
\* The positions of main at which the job list has been built.
JobsBuilt == pc \notin {"start", "glob", "build", "return_no_input"}

\* A name ends with the shard suffix '.mid.compound.txt'.
HasShardSuffix(name) ==
    \E k \in 0..Len(name) : SubSeq(name, k + 1, Len(name)) = Suffix

SuffixNames == { n \in dirFiles : HasShardSuffix(n) }

VisibleShardNames == { n \in SuffixNames : n[1] # "." }

\* main has built exactly one job whose input_files is the strictly
\* ascending list of the paths of `names`, with the augmentation factor of
\* the command line, slot index 0 and the fixed output file of the directory.
OneJobOver(names) ==
    /\ Len(starmap_args) = 1
    /\ LET job == starmap_args[1]
       IN  /\ { job.input_files[i] : i \in DOMAIN job.input_files }
                = { [dir |-> "datadir", name |-> n] : n \in names }
           /\ Len(job.input_files) = Cardinality(names)
           /\ \A i, k \in DOMAIN job.input_files :
                i < k => StrLess(job.input_files[i].name, job.input_files[k].name)
           /\ job.augmentation_factor = augment
           /\ job.proc_idx = 0
           /\ job.output_file = [dir |-> "datadir", name |-> OutputName]

C2_NoInputFiles ==
    (SuffixNames = {} /\ pc \notin {"start", "glob"}) =>
        /\ pc = "return_no_input"
        /\ out = <<"parameters", "no_input_files">>
        /\ starmap_args = <<>>
        /\ taskq = <<>> /\ slots = <<>> /\ running = <<>>
        /\ calls = <<>>
        /\ written = {}
        /\ report = <<>>

C2_Witness ==
    /\ pc = "return_no_input"
    /\ dirFiles = {OutputName}
    /\ out[Len(out)] = "no_input_files"

\* The sum of field i over a list of statistics tuples.
RECURSIVE SumField(_, _)
SumField(list, i) ==
    IF list = <<>> THEN 0 ELSE Head(list)[i] + SumField(Tail(list), i)

Reorderings(list) ==
    { [i \in DOMAIN list |-> list[p[i]]] :
        p \in { q \in [DOMAIN list -> DOMAIN list] :
                  \A i, k \in DOMAIN list : i # k => q[i] # q[k] } }

Totals(list) ==
    [seq_count |-> SumField(list, 1), rest_count |-> SumField(list, 2),
     too_short |-> SumField(list, 3), too_long |-> SumField(list, 4),
     too_manyinstr |-> SumField(list, 5), discarded_seqs |-> SumField(list, 6),
     truncations |-> SumField(list, 7)]

\* C3: once the statistics are unpacked, each of the seven totals is the sum
\* of that field over the list the pool returned, unpacking any reordering of
\* that list gives the same totals, and the report prints these totals.
C3_TotalsAreSums ==
    /\ pc \in {"report", "done"} =>
         /\ stats = Totals(results)
         /\ \A l \in Reorderings(results) : Unpack(l) = stats
    /\ pc = "done" =>
         /\ report[1].processed = SumField(results, 1)
         /\ report[1].rest_count = SumField(results, 2)
         /\ report[1].too_short = SumField(results, 3)
         /\ report[1].too_long = SumField(results, 4)
         /\ report[1].too_manyinstr = SumField(results, 5)
         /\ report[1].discarded_seqs = SumField(results, 6)
         /\ report[1].truncations = SumField(results, 7)

C3_Witness ==
    /\ pc = "done"
    /\ results = << <<100, 50, 1, 2, 5, 6, 10>> >>
    /\ report[1].truncations = 10

\* C4: no division by zero is ever evaluated, and when the pool returned a
\* sequence count of 0, or M is 0, main goes on to the report with both
\* ratios 0.
C4_GuardedRatios ==
    /\ ~zerodiv
    /\ (results # <<>> /\ (results[1][1] = 0 \/ M = 0)) =>
         /\ pc \in {"check", "unpack", "report", "done"}
         /\ pc \in {"report", "done"} => rest_ratio = 0 /\ trunc_ratio = 0
         /\ pc = "done" => report[1].rest_ratio = 0 /\ report[1].trunc_ratio = 0

C4_Witness ==
    /\ pc = "done"
    /\ M = 0
    /\ stats.seq_count = 100 /\ stats.rest_count = 50 /\ stats.truncations = 10
    /\ report[1].rest_ratio = 0

\* h hundredths is a hundredth nearest to 100 * count / den.
NearestHundredth(h, count, den) ==
    LET d == h * den - 10000 * count
    IN  2 * (IF d < 0 THEN -d ELSE d) <= den

\* C5: with seq_count > 0 and M > 0 each ratio is 100 * count / (seq_count * M)
\* rounded to the nearest hundredth; 100 sequences, 50 rests, 10 truncations
\* and M = 20 give 2.5 and 0.5.
C5_RoundedPercentages ==
    (pc \in {"report", "done"} /\ stats.seq_count > 0 /\ M > 0) =>
        /\ NearestHundredth(rest_ratio, stats.rest_count, stats.seq_count * M)
        /\ NearestHundredth(trunc_ratio, stats.truncations, stats.seq_count * M)
        /\ (stats.seq_count = 100 /\ stats.rest_count = 50
              /\ stats.truncations = 10 /\ M = 20) =>
             rest_ratio = 250 /\ trunc_ratio = 50
        /\ pc = "done" =>
             /\ report[1].rest_ratio = rest_ratio
             /\ report[1].trunc_ratio = trunc_ratio

C5_Witness ==
    /\ pc = "done"
    /\ M = 20
    /\ stats.seq_count = 100 /\ stats.rest_count = 50 /\ stats.truncations = 10
    /\ report[1].rest_ratio = 250
    /\ report[1].trunc_ratio = 50

\* C6: whenever the report is reached, the truncation label is 'interarrival'
\* if the interarrival flag was set and 'duration' otherwise.
C6_TruncationLabel ==
    /\ pc \in {"report", "done"} =>
         trunc_type = (IF interarrival THEN "interarrival" ELSE "duration")
    /\ pc = "done" =>
         /\ report[1].trunc_type \in {"interarrival", "duration"}
         /\ report[1].trunc_type = "interarrival" <=> interarrival

C6_Witness ==
    /\ pc = "done"
    /\ interarrival
    /\ stats.seq_count = 0 /\ stats.truncations = 0
    /\ report[1].trunc_type = "interarrival"

\* The phase of an invocation, by the position of main.
PhaseAt(at) ==
    CASE at = "start" -> "Idle"
      [] at = "glob" -> "Discovering"
      [] at \in {"build", "pool", "submit", "wait", "check"} -> "Dispatching"
      [] at \in {"unpack", "report"} -> "Aggregating"
      [] at = "done" -> "Reported"
      [] at = "return_no_input" -> "Failed(NoInputFilesError)"
      [] at = "return_no_results" -> "Failed(EmptyResultError)"
      [] at = "raised" -> "Raised"

SpecifiedEdges ==
    { <<"Idle", "Discovering">>, <<"Discovering", "Dispatching">>,
      <<"Dispatching", "Aggregating">>, <<"Aggregating", "Reported">>,
      <<"Discovering", "Failed(NoInputFilesError)">>,
      <<"Dispatching", "Failed(EmptyResultError)">> }

NoJobInFlight ==
    /\ taskq = <<>>
    /\ \A w \in DOMAIN running : running[w] = 0
    /\ DOMAIN slots = DOMAIN starmap_args
    /\ \A j \in DOMAIN slots : slots[j].state # "pending"

\* C7, as stated: an invocation starts Idle and changes phase only along
\* Idle, Discovering, Dispatching, Aggregating, Reported, or from Discovering
\* to Failed(NoInputFilesError), or from Dispatching to
\* Failed(EmptyResultError).
C7_OnlySpecifiedEdges ==
    /\ PhaseAt(pc) = "Idle"
    /\ [][PhaseAt(pc') = PhaseAt(pc)
            \/ <<PhaseAt(pc), PhaseAt(pc')>> \in SpecifiedEdges]_vars

\* C7, amended: an invocation starts Idle and changes phase only along Idle,
\* Discovering, Dispatching, Aggregating, Reported, or from Discovering to
\* Failed(NoInputFilesError), or from Dispatching to Failed(EmptyResultError),
\* or from Dispatching to a job's exception propagating out of main; and while
\* it is Aggregating no dispatched job is queued, running or without outcome.
C7_PhaseOrderAndBarrier ==
    /\ PhaseAt(pc) = "Idle"
    /\ [][PhaseAt(pc') = PhaseAt(pc)
            \/ <<PhaseAt(pc), PhaseAt(pc')>>
                 \in SpecifiedEdges \cup {<<"Dispatching", "Raised">>}]_vars
    /\ [](PhaseAt(pc) = "Aggregating" => NoJobInFlight)

C7_Witness ==
    /\ PhaseAt(pc) = "Aggregating"
    /\ PREPROC_WORKERS = 2
    /\ slots[1].state = "ok"
    /\ Len(calls[1]) = 1

\* starmap is over and every job that was submitted has failed.
DispatchOver ==
    pc \in {"raised", "check", "return_no_results", "unpack", "report", "done"}

AllJobsFailed ==
    /\ slots # <<>>
    /\ \A j \in DOMAIN slots : slots[j].state = "error"

\* C8, as stated: when all jobs have failed the engine ends in the
\* EmptyResultError outcome: the diagnostic is printed, main returns without
\* raising, and nothing of the report is printed.
C8_AllFailedIsEmptyResult ==
    (DispatchOver /\ AllJobsFailed) =>
        /\ pc \in {"check", "return_no_results"}
        /\ pc = "return_no_results" => out[Len(out)] = "no_results"
        /\ report = <<>>

\* C8, amended: the pool never yields zero results, so the EmptyResultError
\* outcome is never taken: starmap returns one result per submitted job, or,
\* when a job has failed, re-raises its exception out of main, which then
\* prints neither a diagnostic nor any part of the report.
C8_FailureRaisesNoEmptyResult ==
    /\ pc # "return_no_results"
    /\ \A i \in DOMAIN out : out[i] # "no_results"
    /\ pc \in {"check", "unpack", "report", "done"} =>
         Len(results) = Len(starmap_args) /\ Len(results) >= 1
    /\ (DispatchOver /\ AllJobsFailed) =>
         /\ pc = "raised"
         /\ out = <<"parameters", "found">>
         /\ report = <<>>

C8_Witness ==
    /\ pc = "raised"
    /\ AllJobsFailed
    /\ results = <<>>

\* C9: no job is ever given to the tokenizer a second time, and once the
\* tokenizer has failed for a job main never gets past starmap: it ends with
\* the exception, and no report, full or partial, is printed.
C9_FailureFailsInvocation ==
    /\ \A j \in DOMAIN calls : Len(calls[j]) <= 1
    /\ (\E j \in DOMAIN slots : slots[j].state = "error") =>
         /\ pc \in {"wait", "raised"}
         /\ \A i \in DOMAIN out : out[i] # "complete"
         /\ report = <<>>
         /\ \A j \in DOMAIN slots : slots[j].state = "error" => j \notin
              ({ taskq[i] : i \in DOMAIN taskq } \cup { running[w] : w \in DOMAIN running })

C9_Witness ==
    /\ pc = "raised"
    /\ Len(slots) = 1
    /\ slots[1].state = "error"
    /\ Len(calls[1]) = 1
    /\ PREPROC_WORKERS = 2

Holders(j) ==
    Cardinality({ w \in DOMAIN running : running[w] = j })
    + Cardinality({ i \in DOMAIN taskq : taskq[i] = j })
    + Len(calls[j])

\* C10: for every pool size >= 1, each submitted job is at every moment either
\* queued, or held by one worker, or was given to the tokenizer once; when
\* starmap has returned every job was given to the tokenizer exactly once,
\* with the function selected by the flag; and at most one worker ever writes
\* the output destination.
C10_ExactlyOnce ==
    /\ \A j \in DOMAIN calls : Holders(j) = 1
    /\ pc \in {"check", "unpack", "report", "done"} =>
         /\ DOMAIN calls = DOMAIN starmap_args
         /\ Len(calls) = 1
         /\ \A j \in DOMAIN calls :
              /\ Len(calls[j]) = 1
              /\ calls[j][1].func = (IF interarrival THEN "tokenize_ia" ELSE "tokenize")
    /\ Cardinality({ wr[2] : wr \in written }) <= 1
    /\ \A wr \in written : wr[1] = [dir |-> "datadir", name |-> OutputName]

C10_Witness ==
    /\ pc = "done"
    /\ PREPROC_WORKERS = 2
    /\ calls[1][1].worker = 2
    /\ written = {<<[dir |-> "datadir", name |-> OutputName], 2>>}

====
